---- MODULE Spec2Model ----
(***************************************************************************)
(* TcpSocket.js: the JavaScript side of react-native-tcp.  A TcpSocket is  *)
(* an EventEmitter in front of the native module NativeModules.TcpSockets  *)
(* ("Sockets"), which receives commands (createSocket, connect, write,     *)
(* end, destroy) and answers with events on the DeviceEventEmitter topic   *)
(* 'tcp-<id>-event' and with the write callbacks.                          *)
(*                                                                         *)
(* JavaScript is single threaded: every handler below runs to completion,  *)
(* so each handler is one action.  A handler that calls another one        *)
(* (end -> write, the timer closure -> destroy) contains the callee.       *)
(***************************************************************************)
EXTENDS Integers, Sequences, FiniteSets, TLC

\* At most this many TcpSocket objects are referenced at a time, in the
\* specifications about several objects (SpecIds, SpecEvents).
MaxSockets == 2
\* At most this many TcpSocket objects are referenced at a time, in the
\* specifications about the calls on one object.
MaxSocketsAlone == 1
\* The javascript id range 1..1000 (line 41), scaled down to 1..MaxClientId.
MaxClientId == 2
\* At most this many write callbacks are held by the native module at a time.
MaxAcks == 1
\* At most this many once listeners are registered per event on an object.
MaxListeners == 1

\* STATE (lines 23-27)
DISCONNECTED == 0
CONNECTING == 1
CONNECTED == 2

VARIABLES
  usedIds,   \* the module-level array usedIds (line 22), read by indexOf only
  sockets,   \* the TcpSocket objects still referenced, by reference 1..MaxSockets
  acks,      \* the write callbacks (lines 228-241) the native module holds
  hung,      \* TRUE once a constructor is caught in the loop of lines 42-44
  out        \* what the last handler did: its result, the commands it issued
             \* to Sockets, the notifications it gave to the consumer and the
             \* object as the listeners of each emit() found it

vars == <<usedIds, sockets, acks, hung, out>>

----------------------------------------------------------------------------
(* JavaScript values, as far as the handlers look at them. *)

Undef == [t |-> "undefined", n |-> 0, s |-> ""]
Num(k) == [t |-> "number", n |-> k, s |-> ""]
NaN == [t |-> "number", n |-> 0, s |-> "NaN"]
Str(x) == [t |-> "string", n |-> 0, s |-> x]
Bool(b) == [t |-> "boolean", n |-> IF b THEN 1 ELSE 0, s |-> ""]
Fn == [t |-> "function", n |-> 0, s |-> "callback"]
Bytes(x) == [t |-> "Uint8Array", n |-> 0, s |-> x]
Obj(x) == [t |-> "object", n |-> 0, s |-> x]
Err(x) == [t |-> "Error", n |-> 0, s |-> x]

\* typeof x
typeof(x) == IF x.t \in {"Uint8Array", "Error"} THEN "object" ELSE x.t

\* ToBoolean(x): `if (x)`, `x || y`, `x && y`
Truthy(x) ==
  CASE x.t = "undefined" -> FALSE
    [] x.t = "number" -> x.s # "NaN" /\ x.n # 0
    [] x.t = "string" -> x.s # ""
    [] x.t = "boolean" -> x.n = 1
    [] OTHER -> TRUE

\* The numeric value of the strings the model passes as ports.
StringToNumber(x) ==
  CASE x = "80" -> Num(80)
    [] x = "" -> Num(0)
    [] x = " " -> Num(0)
    [] OTHER -> NaN

\* ToNumber(x): `+x`, Number(x), and the operands of >=, <=
ToNumber(x) ==
  CASE x.t = "number" -> x
    [] x.t = "string" -> StringToNumber(x.s)
    [] x.t = "boolean" -> Num(x.n)
    [] OTHER -> NaN

\* ToUint32(x): `x >>> 0`.  The numbers of the model lie in -2^31..2^31-1, where
\* ToUint32 leaves k >= 0 alone and gives k + 2^32, written with s = "+2^32", for k < 0.
ToUint32(x) ==
  LET k == ToNumber(x) IN
  CASE k.s = "NaN" -> Num(0)
    [] k.n >= 0 -> Num(k.n)
    [] OTHER -> [t |-> "number", n |-> k.n, s |-> "+2^32"]

\* ToInt32(x): `x | x`, the identity on -2^31..2^31-1
ToInt32(x) == LET k == ToNumber(x) IN IF k.s = "NaN" THEN Num(0) ELSE Num(k.n)

\* String.prototype.trim
trim(x) == IF x = " " THEN "" ELSE x

----------------------------------------------------------------------------
\* lines 118-123
isLegalPort(port) ==
  IF typeof(port) = "string" /\ trim(port.s) = ""
  THEN FALSE
  ELSE LET k == ToNumber(port) IN
       /\ k.s # "NaN"
       /\ k = ToUint32(port)
       /\ k.n >= 0
       /\ k.n <= 65535

\* ipRegex({exact: true}).test(x), on the literals the model passes
ipRegexTest(x) == x \in {"10.0.0.1", "::1"}

\* lines 246-254 without lines 248-250
normalizeErrorUnwrapped(err) == IF Truthy(err) THEN err ELSE Undef

\* lines 246-254
normalizeError(err) ==
  IF Truthy(err)
  THEN IF typeof(err) = "string" THEN Err(err.s) ELSE err
  ELSE Undef

\* Base64Str.encode(x) of './base64-str' (line 219), on the texts the model writes
Base64Str_encode(x) == IF x = "x" THEN "eA==" ELSE ""

\* buffer.toString('base64') and base64.fromByteArray(buffer) (lines 221, 223)
fromByteArray(x) == IF x = "x" THEN "eA==" ELSE ""

\* base64.toByteArray(x) / new Buffer(x, 'base64') (lines 196-198)
toByteArray(x) == IF x = "eA==" THEN "x" ELSE ""

----------------------------------------------------------------------------
(* The handlers, as functions of the socket they run on.  Each gives the   *)
(* socket afterwards, what the call returned or threw, the commands it     *)
(* issued to Sockets, and the write callbacks it handed to Sockets.        *)

Returned == "undefined"
ReturnedTrue == "true"
AlreadyBound == "Error: Socket is already bound"
NotConnected == "Error: Socket is not connected."
InvalidFormat == "Error: invalid message format"
BadLocalAddress == "TypeError: \"localAddress\" option must be a valid IP"
BadLocalPort == "TypeError: \"localPort\" option should be a number"
BadPortType == "TypeError: \"port\" option should be a number or string"
BadPortRange == "RangeError: \"port\" option should be >= 0 and < 65536"
NotAFunction == "TypeError: cb is not a function"
NeverReturns == "never returns"

Thrown == {AlreadyBound, NotConnected, InvalidFormat, BadLocalAddress, BadLocalPort, BadPortType, BadPortRange, NotAFunction}

Cmd(c, id, arg) == [cmd |-> c, id |-> id, arg |-> arg]

Emitted(event, h, data) == [event |-> event, sock |-> h, data |-> data]

Called(kind, h, arg) == [event |-> kind, sock |-> h, data |-> arg]

\* lines 41-44 without the loop of lines 42-44: any draw is kept
allocateWithoutRetry(used) == 1..MaxClientId

\* lines 41-44: the ids the loop can leave in this._id; none when every id is used
allocate(used) == {id \in 1..MaxClientId : id \notin used}

\* lines 29-66, the object after construction
construct(id, nativeSocket) ==
  [ id |-> id,
    nativeSocket |-> nativeSocket,
    state |-> IF nativeSocket THEN CONNECTED ELSE DISCONNECTED,
    readable |-> FALSE,
    writable |-> FALSE,
    subscription |-> TRUE,
    destroyed |-> FALSE,
    timeout |-> FALSE,
    address |-> Undef,
    port |-> Undef,
    family |-> Undef,
    connectListeners |-> <<>>,  \* once('connect', callback), line 84
    timeoutListeners |-> <<>>,  \* once('timeout', callback), line 135
    removed |-> 0,     \* calls of this._subscription.remove() so far
    closed |-> 0,      \* Sockets.end and Sockets.destroy commands so far
    rejected |-> FALSE \* a connect() on it has failed validation
  ]

\* lines 92-107: what connect() throws on these options, "" when nothing
validate(options) ==
  CASE Truthy(options.localAddress) /\ ~ipRegexTest(options.localAddress.s) -> BadLocalAddress
    [] Truthy(options.localPort) /\ typeof(options.localPort) # "number" -> BadLocalPort
    [] typeof(options.port) # "undefined" /\ typeof(options.port) \notin {"number", "string"} -> BadPortType
    [] typeof(options.port) # "undefined" /\ ~isLegalPort(options.port) -> BadPortRange
    [] OTHER -> ""

\* line 79 with `=== STATE.CONNECTED` for `!== STATE.DISCONNECTED`
boundWhenConnected(s) == s.state = CONNECTED

\* line 79
bound(s) == s.state # DISCONNECTED

\* lines 78-114 with line 110 moved up, before the validation of lines 92-107
connectCallStateFirst(s, options, callback) ==
  IF bound(s)
  THEN [sock |-> s, ret |-> AlreadyBound, cmds |-> <<>>]
  ELSE IF validate(options) # ""
  THEN [sock |-> [s EXCEPT !.state = CONNECTING, !.rejected = TRUE],
        ret |-> validate(options), cmds |-> <<>>]
  ELSE [sock |-> [s EXCEPT !.state = CONNECTING],
        ret |-> Returned,
        cmds |-> <<Cmd("connect", s.id, ToNumber(ToInt32(options.port)))>>]

\* lines 78-114
connectCall(s, options, callback) ==
  IF bound(s)
  THEN [sock |-> s, ret |-> AlreadyBound, cmds |-> <<>>]
  ELSE LET failed == validate(options) # ""
           l == IF typeof(callback) = "function"
                THEN [s EXCEPT !.connectListeners =
                        Append(@, IF failed THEN "of a rejected call" ELSE "of an accepted call")]
                ELSE s
       IN IF failed
          THEN [sock |-> [l EXCEPT !.rejected = TRUE], ret |-> validate(options), cmds |-> <<>>]
          ELSE [sock |-> [l EXCEPT !.state = CONNECTING],
                ret |-> Returned,
                cmds |-> <<Cmd("connect", s.id, ToNumber(ToInt32(options.port)))>>]

\* lines 125-145.  The listeners that line 135 registered in earlier calls stay
\* (lines 128-131 clear the timer only); each is named by whether its call is the
\* one that armed the timer.
setTimeoutCall(s, msecs, callback) ==
  IF ToNumber(msecs).s # "NaN" /\ ToNumber(msecs).n > 0
  THEN [s EXCEPT !.timeout = TRUE,
                 !.timeoutListeners =
                    [i \in 1..Len(@) |-> "of an earlier call"]
                    \o (IF Truthy(callback) THEN <<"of the arming call">> ELSE <<>>)]
  ELSE [s EXCEPT !.timeout = FALSE]

\* lines 217-226: the base64 string, "invalid" when the buffer has no encoding
encode(buffer) ==
  CASE typeof(buffer) = "string" -> Base64Str_encode(buffer.s)
    [] buffer.t = "Uint8Array" -> fromByteArray(buffer.s)
    [] OTHER -> "invalid"

\* line 209 with `!== STATE.CONNECTED` for `=== STATE.DISCONNECTED`
unconnectedOrConnecting(s) == s.state # CONNECTED

\* line 209
unconnected(s) == s.state = DISCONNECTED

\* lines 206-244
writeCall(s, h, buffer, callback) ==
  IF unconnected(s)
  THEN [ret |-> NotConnected, cmds |-> <<>>, acks |-> <<>>]
  ELSE IF encode(buffer) = "invalid"
  THEN [ret |-> InvalidFormat, cmds |-> <<>>, acks |-> <<>>]
  ELSE [ret |-> ReturnedTrue,
        cmds |-> <<Cmd("write", s.id, Str(encode(buffer)))>>,
        acks |-> <<[sock |-> h, id |-> s.id, cb |-> callback]>>]

\* lines 162-166 and 171-175: mark, unsubscribe, command
teardown(s, cmd) ==
  [sock |-> [s EXCEPT !.destroyed = TRUE, !.subscription = FALSE,
                      !.removed = @ + 1, !.closed = @ + 1],
   ret |-> Returned, cmds |-> <<Cmd(cmd, s.id, Undef)>>, acks |-> <<>>]

\* lines 169-177 without the test of line 170
destroyCallUnguarded(s) == teardown(s, "destroy")

\* lines 169-177
destroyCall(s) ==
  IF ~s.destroyed
  THEN teardown(s, "destroy")
  ELSE [sock |-> s, ret |-> Returned, cmds |-> <<>>, acks |-> <<>>]

\* lines 153-167 with lines 158-160 moved down, after Sockets.end of line 166
endCallWriteLast(s, h, data, encoding) ==
  IF s.destroyed
  THEN [sock |-> s, ret |-> Returned, cmds |-> <<>>, acks |-> <<>>]
  ELSE IF Truthy(data)
  THEN LET w == writeCall(s, h, data, encoding) IN
       IF w.ret \in Thrown
       THEN [teardown(s, "end") EXCEPT !.ret = w.ret]
       ELSE [teardown(s, "end") EXCEPT !.cmds = @ \o w.cmds, !.acks = w.acks]
  ELSE teardown(s, "end")

\* lines 153-167
endCall(s, h, data, encoding) ==
  IF s.destroyed
  THEN [sock |-> s, ret |-> Returned, cmds |-> <<>>, acks |-> <<>>]
  ELSE IF Truthy(data)
  THEN LET w == writeCall(s, h, data, encoding) IN
       IF w.ret \in Thrown
       THEN [sock |-> s, ret |-> w.ret, cmds |-> <<>>, acks |-> <<>>]
       ELSE [teardown(s, "end") EXCEPT !.cmds = w.cmds \o @, !.acks = w.acks]
  ELSE teardown(s, "end")

\* lines 179-204 with this._subscription.remove() added to the close branch
onEventCloseUnsubscribes(s, info) ==
  CASE info.event = "connect" ->
         [s EXCEPT !.writable = TRUE, !.readable = TRUE, !.state = CONNECTED,
                   !.address = Str(info.data.s), !.port = ToNumber(Num(info.data.n)),
                   !.family = Str("IPv4")]
    [] info.event = "data" -> [s EXCEPT !.timeout = FALSE]
    [] info.event = "close" -> [s EXCEPT !.state = DISCONNECTED, !.subscription = FALSE]
    [] OTHER -> s

\* lines 179-204 without lines 190-193: a data event leaves the timer armed
onEventKeepsTimer(s, info) ==
  CASE info.event = "connect" ->
         [s EXCEPT !.writable = TRUE, !.readable = TRUE, !.state = CONNECTED,
                   !.address = Str(info.data.s), !.port = ToNumber(Num(info.data.n)),
                   !.family = Str("IPv4")]
    [] info.event = "close" -> [s EXCEPT !.state = DISCONNECTED]
    [] OTHER -> s

\* lines 179-204, the assignments
onEvent(s, info) ==
  CASE info.event = "connect" ->
         [s EXCEPT !.writable = TRUE, !.readable = TRUE, !.state = CONNECTED,
                   !.address = Str(info.data.s), !.port = ToNumber(Num(info.data.n)),
                   !.family = Str("IPv4")]
    [] info.event = "data" -> [s EXCEPT !.timeout = FALSE]
    [] info.event = "close" -> [s EXCEPT !.state = DISCONNECTED]
    [] OTHER -> s

\* lines 53-55 with the topic 'tcp-event' for 'tcp-' + this._id + '-event'
subscribersOfAnyId(id) == {h \in DOMAIN sockets : sockets[h].subscription}

\* lines 53-55: the objects listening on 'tcp-<id>-event'
subscribers(id) == {h \in DOMAIN sockets : sockets[h].subscription /\ sockets[h].id = id}

\* EventEmitter.emit(event, data) on socket h: the notification, then the once
\* listeners of the event, which are removed
emit(s, h, event, data) ==
  LET ls == CASE event = "connect" -> s.connectListeners
              [] event = "timeout" -> s.timeoutListeners
              [] OTHER -> <<>>
  IN [sock |-> CASE event = "connect" -> [s EXCEPT !.connectListeners = <<>>]
                 [] event = "timeout" -> [s EXCEPT !.timeoutListeners = <<>>]
                 [] OTHER -> s,
      notes |-> <<Emitted(event, h, data)>>
                \o [i \in 1..Len(ls) |-> Called(event \o " callback", h, Str(ls[i]))],
      seen |-> <<s>>]

\* lines 179-204 with line 203 moved up, before the assignments
onEventCallEmitFirst(s, h, info) ==
  LET e == emit(s, h, info.event,
                IF info.event = "data" THEN Bytes(toByteArray(info.data.s)) ELSE info.data)
  IN [sock |-> onEvent(e.sock, info), notes |-> e.notes, seen |-> e.seen]

\* lines 179-204
onEventCall(s, h, info) ==
  emit(onEvent(s, info), h, info.event,
       IF info.event = "data" THEN Bytes(toByteArray(info.data.s)) ELSE info.data)

\* lines 139-143, the timer's function
timerCall(s, h) ==
  LET e == emit(s, h, "timeout", Undef)
      d == destroyCall([e.sock EXCEPT !.timeout = FALSE])
  IN [sock |-> d.sock, ret |-> Returned, cmds |-> d.cmds, notes |-> e.notes, seen |-> e.seen]

\* lines 228-241, the function given to Sockets.write
ackCall(s, h, cb, err) ==
  [sock |-> [s EXCEPT !.timeout = FALSE],
   ret |-> IF typeof(cb) \in {"function", "undefined"} THEN Returned ELSE NotAFunction,
   notes |-> IF typeof(cb) = "function"
             THEN <<Called("write callback", h, normalizeError(err))>>
             ELSE <<>>]

----------------------------------------------------------------------------
(* What the consumer and the native module pass in. *)

Ports == {Undef, Num(80), Num(65535), Num(65536), Num(0 - 1),
          Str("80"), Str("abc"), Str(" "), Bool(TRUE)}

ConnectOptions ==
  { [port |-> p, localAddress |-> Undef, localPort |-> Undef] : p \in Ports }
  \cup
  { [port |-> Num(80), localAddress |-> Str("10.0.0.1"), localPort |-> Num(8080)],
    [port |-> Num(80), localAddress |-> Str("not an ip"), localPort |-> Num(8080)],
    [port |-> Num(80), localAddress |-> Str("10.0.0.1"), localPort |-> Str("abc")] }

\* the options of the calls whose validation is not looked at
PlainOptions == {[port |-> Num(80), localAddress |-> Undef, localPort |-> Undef]}

WriteBuffers == {Str("x"), Bytes("x"), Obj("{}")}

EndData == {Undef, Str("x"), Str("")}

Callbacks == {Undef, Fn}

Encodings == {Undef, Str("utf8")}

Durations == {Num(0), Num(100)}

AckErrors == {Undef, Str("ETIMEDOUT"), Err("ECONNRESET")}

EventInfos ==
  { [event |-> "connect", data |-> [t |-> "object", n |-> 4000, s |-> "10.0.0.2"]],
    [event |-> "data", data |-> Str("eA==")],
    [event |-> "close", data |-> Undef],
    [event |-> "error", data |-> Str("ECONNREFUSED")] }

\* the events that _onEvent answers with a change of this._state
StateEvents == {info \in EventInfos : info.event \in {"connect", "close"}}

\* the events that _onEvent answers with an assignment
HandledEvents == {info \in EventInfos : info.event \in {"connect", "data", "close"}}

\* native generated sockets range from 5000-6000 (line 35)
NativeIds == {5000}

----------------------------------------------------------------------------
Init ==
  /\ usedIds = {}
  /\ sockets = <<>>
  /\ acks = <<>>
  /\ hung = FALSE
  /\ out = [ret |-> Returned, cmds |-> <<>>, notes |-> <<>>, seen |-> <<>>]

Out(ret, cmds, notes) == [ret |-> ret, cmds |-> cmds, notes |-> notes, seen |-> <<>>]

\* the reference the next object gets
NewRef == CHOOSE r \in 1..(Cardinality(DOMAIN sockets) + 1) : r \notin DOMAIN sockets /\ \A q \in 1..(r - 1) : q \in DOMAIN sockets

Put(h, s) == [r \in DOMAIN sockets \cup {h} |-> IF r = h THEN s ELSE sockets[r]]

Running == ~hung

\* new TcpSocket(), lines 29-66 with no options.id, as the max-th object at most
TcpSocket(max) ==
  /\ Running
  /\ Cardinality(DOMAIN sockets) < max
  /\ IF allocate(usedIds) = {}
     THEN /\ hung' = TRUE
          /\ out' = Out(NeverReturns, <<>>, <<>>)
          /\ UNCHANGED <<usedIds, sockets, acks>>
     ELSE \E id \in allocate(usedIds) :
          /\ usedIds' = usedIds \cup {id}
          /\ sockets' = Put(NewRef, construct(id, FALSE))
          /\ out' = Out(Returned, <<Cmd("createSocket", id, Undef)>>, <<>>)
          /\ UNCHANGED <<acks, hung>>

\* new TcpSocket({id: id}), lines 29-66 with options.id, for an incoming connection
TcpSocketNative(max) ==
  /\ Running
  /\ Cardinality(DOMAIN sockets) < max
  /\ \E id \in NativeIds \ usedIds :
       /\ usedIds' = usedIds \cup {ToNumber(Num(id)).n}
       /\ sockets' = Put(NewRef, construct(ToNumber(Num(id)).n, TRUE))
       /\ out' = Out(Returned, <<>>, <<>>)
       /\ UNCHANGED <<acks, hung>>

connect(h, options, callback) ==
  /\ Running
  /\ LET r == connectCall(sockets[h], options, callback) IN
       /\ sockets' = [sockets EXCEPT ![h] = r.sock]
       /\ out' = Out(r.ret, r.cmds, <<>>)
  /\ UNCHANGED <<usedIds, acks, hung>>

setTimeout(h, msecs, callback) ==
  /\ Running
  /\ sockets' = [sockets EXCEPT ![h] = setTimeoutCall(@, msecs, callback)]
  /\ out' = Out(Returned, <<>>, <<>>)
  /\ UNCHANGED <<usedIds, acks, hung>>

write(h, buffer, callback) ==
  /\ Running
  /\ LET r == writeCall(sockets[h], h, buffer, callback) IN
       /\ Len(acks) + Len(r.acks) <= MaxAcks
       /\ acks' = acks \o r.acks
       /\ out' = Out(r.ret, r.cmds, <<>>)
  /\ UNCHANGED <<usedIds, sockets, hung>>

end(h, data, encoding) ==
  /\ Running
  /\ LET r == endCall(sockets[h], h, data, encoding) IN
       /\ Len(acks) + Len(r.acks) <= MaxAcks
       /\ sockets' = [sockets EXCEPT ![h] = r.sock]
       /\ acks' = acks \o r.acks
       /\ out' = Out(r.ret, r.cmds, <<>>)
  /\ UNCHANGED <<usedIds, hung>>

destroy(h) ==
  /\ Running
  /\ LET r == destroyCall(sockets[h]) IN
       /\ sockets' = [sockets EXCEPT ![h] = r.sock]
       /\ out' = Out(r.ret, r.cmds, <<>>)
  /\ UNCHANGED <<usedIds, acks, hung>>

\* the timer of line 139 expires
timeout(h) ==
  /\ Running
  /\ sockets[h].timeout
  /\ LET r == timerCall(sockets[h], h) IN
       /\ sockets' = [sockets EXCEPT ![h] = r.sock]
       /\ out' = [Out(r.ret, r.cmds, r.notes) EXCEPT !.seen = r.seen]
  /\ UNCHANGED <<usedIds, acks, hung>>

Remove(q, i) == [j \in 1..(Len(q) - 1) |-> IF j < i THEN q[j] ELSE q[j + 1]]

\* the native module calls the function given to Sockets.write
ack(i, err) ==
  /\ Running
  /\ LET a == acks[i]
         r == ackCall(sockets[a.sock], a.sock, a.cb, err) IN
       /\ sockets' = [sockets EXCEPT ![a.sock] = r.sock]
       /\ out' = Out(r.ret, <<>>, r.notes)
  /\ acks' = Remove(acks, i)
  /\ UNCHANGED <<usedIds, hung>>

RECURSIVE notesOf(_, _)
\* what the listeners of the set hs emit, called in the order of their references
notesOf(hs, info) ==
  IF hs = {} THEN <<>>
  ELSE LET h == CHOOSE x \in hs : \A y \in hs : x <= y
       IN onEventCall(sockets[h], h, info).notes \o notesOf(hs \ {h}, info)

RECURSIVE seenOf(_, _)
\* the objects as the listeners of these emits find them, in the same order
seenOf(hs, info) ==
  IF hs = {} THEN <<>>
  ELSE LET h == CHOOSE x \in hs : \A y \in hs : x <= y
       IN onEventCall(sockets[h], h, info).seen \o seenOf(hs \ {h}, info)

\* the native module emits 'tcp-<id>-event' on the DeviceEventEmitter
event(id, info) ==
  LET hs == subscribers(id) IN
  /\ Running
  /\ UNCHANGED <<usedIds, acks, hung>>
  /\ out' = [Out(Returned, <<>>, notesOf(hs, info)) EXCEPT !.seen = seenOf(hs, info)]
  /\ sockets' = [h \in DOMAIN sockets |->
                   IF h \in hs THEN onEventCall(sockets[h], h, info).sock
                   ELSE sockets[h]]

\* the consumer drops its last reference to a destroyed object that no timer
\* and no write callback refers to
release(h) ==
  /\ Running
  /\ sockets[h].destroyed
  /\ ~sockets[h].timeout
  /\ \A i \in 1..Len(acks) : acks[i].sock # h
  /\ sockets' = [r \in DOMAIN sockets \ {h} |-> sockets[r]]
  /\ out' = Out(Returned, <<>>, <<>>)
  /\ UNCHANGED <<usedIds, acks, hung>>

----------------------------------------------------------------------------
(* Spec: every handler, with every input.  Its reachable states are the    *)
(* product of what each of the specifications below reaches; each of them  *)
(* keeps the handlers that read or write what its claims are about, so     *)
(* that TLC enumerates its states.                                         *)

Next ==
  \/ TcpSocket(MaxSockets)
  \/ TcpSocketNative(MaxSockets)
  \/ \E h \in DOMAIN sockets, o \in ConnectOptions, c \in Callbacks :
       /\ Len(sockets[h].connectListeners) + (IF c = Fn THEN 1 ELSE 0) <= MaxListeners
       /\ connect(h, o, c)
  \/ \E h \in DOMAIN sockets, d \in Durations, c \in Callbacks :
       /\ Len(sockets[h].timeoutListeners) + (IF c = Fn THEN 1 ELSE 0) <= MaxListeners
       /\ setTimeout(h, d, c)
  \/ \E h \in DOMAIN sockets, b \in WriteBuffers, c \in Callbacks : write(h, b, c)
  \/ \E h \in DOMAIN sockets, d \in EndData, e \in Encodings : end(h, d, e)
  \/ \E h \in DOMAIN sockets : destroy(h)
  \/ \E h \in DOMAIN sockets : timeout(h)
  \/ \E i \in 1..Len(acks), e \in AckErrors : ack(i, e)
  \/ \E id \in usedIds, info \in EventInfos : event(id, info)
  \/ \E h \in DOMAIN sockets : release(h)

Spec == Init /\ [][Next]_vars

----------------------------------------------------------------------------
(* SpecIds: the id allocation.  usedIds is read and written by the         *)
(* constructor alone (lines 42-46); the objects are torn down by destroy() *)
(* and end() and dropped by their owner, so that new ones are constructed. *)

NextIds ==
  \/ TcpSocket(MaxSockets)
  \/ TcpSocketNative(MaxSockets)
  \/ \E h \in DOMAIN sockets : destroy(h)
  \/ \E h \in DOMAIN sockets : end(h, Undef, Undef)
  \/ \E h \in DOMAIN sockets : release(h)

SpecIds == Init /\ [][NextIds]_vars

Live == {h \in DOMAIN sockets : ~sockets[h].destroyed}

\* C1: the id of every live object constructed without options.id is an integer
\* of the javascript range and is the id of no other live object, whichever
\* way that other object got its id.
C1_ClientIdsUnique ==
  \A h \in Live :
    ~sockets[h].nativeSocket =>
      /\ sockets[h].id \in 1..MaxClientId
      /\ \A g \in Live \ {h} : sockets[g].id # sockets[h].id

\* C1's case: a constructor without options.id has just returned while another
\* live object, constructed with options.id, exists.
C1_Witness ==
  \E h \in Live, g \in Live :
    /\ h # g
    /\ ~sockets[h].nativeSocket
    /\ sockets[g].nativeSocket
    /\ out.cmds = <<Cmd("createSocket", sockets[h].id, Undef)>>

\* C2: a constructor called when every id of the javascript range is in usedIds
\* ends (with a ResourceExhausted error): no constructor call runs forever.
C2_AllocationTerminates == out.ret # NeverReturns

\* C3: usedIds holds exactly the ids of the live objects: the id of an object
\* torn down by destroy() or end() is no longer in it.
C3_UsedIdsAreLive == usedIds = {sockets[h].id : h \in Live}

----------------------------------------------------------------------------
(* SpecConnect: connect() without a callback.  It reads and writes         *)
(* this._state, which besides it the constructor and _onEvent write.       *)

NextConnect ==
  \/ TcpSocket(MaxSocketsAlone)
  \/ TcpSocketNative(MaxSocketsAlone)
  \/ \E h \in DOMAIN sockets, o \in ConnectOptions : connect(h, o, Undef)
  \/ \E id \in usedIds, info \in EventInfos : event(id, info)

SpecConnect == Init /\ [][NextConnect]_vars

\* C4 as stated: a connect() call on an object that is Connecting or Connected,
\* and every connect() call on an object constructed for an incoming connection,
\* throws 'Socket is already bound', issues no command and changes nothing of the
\* object.  (Line 200 makes any object Disconnected on its close event, and line
\* 79 then lets connect() pass.)
C4_ConnectRefusedOnIncoming ==
  [][ \A h \in DOMAIN sockets, o \in ConnectOptions :
        (/\ connect(h, o, Undef)
         /\ \/ sockets[h].state \in {CONNECTING, CONNECTED}
            \/ sockets[h].nativeSocket) =>
          /\ out'.ret = AlreadyBound
          /\ out'.cmds = <<>>
          /\ sockets' = sockets
    ]_vars

\* C4, amended: a connect() call on an object that is Connecting or Connected
\* throws 'Socket is already bound', issues no command and changes nothing of the
\* object; an object constructed for an incoming connection is Connected from
\* the start, and stays so until its close event.
C4_ConnectOnlyWhenDisconnected ==
  [][ /\ \A h \in DOMAIN sockets, o \in ConnectOptions :
           (connect(h, o, Undef) /\ sockets[h].state \in {CONNECTING, CONNECTED}) =>
             /\ out'.ret = AlreadyBound
             /\ out'.cmds = <<>>
             /\ sockets' = sockets
      /\ \A h \in DOMAIN sockets' \ DOMAIN sockets :
           sockets'[h].nativeSocket => sockets'[h].state = CONNECTED
      /\ \A h \in DOMAIN sockets \cap DOMAIN sockets' :
           (/\ sockets[h].nativeSocket
            /\ sockets[h].state = CONNECTED
            /\ sockets'[h].state # CONNECTED) =>
             \E id \in usedIds, info \in EventInfos :
               info.event = "close" /\ event(id, info)
    ]_vars

\* C4's case: a connect() call has just been refused on an object that is
\* Connecting after an accepted connect(), or on one constructed for an incoming
\* connection.
C4_Witness ==
  /\ out.ret = AlreadyBound
  /\ \E h \in DOMAIN sockets :
       \/ sockets[h].state = CONNECTING /\ ~sockets[h].nativeSocket
       \/ sockets[h].state = CONNECTED /\ sockets[h].nativeSocket /\ ~sockets[h].readable

C5_MalformedPorts == {Num(65536), Num(0 - 1), Str("abc"), Str(" "), Bool(TRUE)}

C5_Malformed(o) ==
  \/ o.localAddress = Str("not an ip")
  \/ o.localPort = Str("abc")
  \/ o.port \in C5_MalformedPorts

C5_ValidationErrors == {BadLocalAddress, BadLocalPort, BadPortType, BadPortRange}

\* C5: on a Disconnected object, a connect() call with a malformed argument
\* throws a validation error, issues no command and leaves the object
\* Disconnected; a connect() call with well-formed arguments, also after such a
\* failure, returns, makes the object Connecting and issues exactly one connect
\* command for its id.
C5_ValidationBeforeCommand ==
  [][ \A h \in DOMAIN sockets, o \in ConnectOptions :
        (connect(h, o, Undef) /\ sockets[h].state = DISCONNECTED) =>
          IF C5_Malformed(o)
          THEN /\ out'.ret \in C5_ValidationErrors
               /\ out'.cmds = <<>>
               /\ sockets'[h].state = DISCONNECTED
          ELSE /\ out'.ret = Returned
               /\ sockets'[h].state = CONNECTING
               /\ Len(out'.cmds) = 1
               /\ out'.cmds[1].cmd = "connect"
               /\ out'.cmds[1].id = sockets[h].id
    ]_vars

\* C5's case: a connect() call has just been accepted on an object on which an
\* earlier connect() call failed validation.
C5_Witness ==
  \E h \in DOMAIN sockets :
    /\ sockets[h].rejected
    /\ sockets[h].state = CONNECTING
    /\ Len(out.cmds) = 1
    /\ out.cmds[1].cmd = "connect"

----------------------------------------------------------------------------
(* SpecWrite: write() and the callback it gives to Sockets.write.  write() *)
(* reads this._state, which the constructor, connect() and _onEvent write. *)

NextWrite ==
  \/ TcpSocket(MaxSocketsAlone)
  \/ TcpSocketNative(MaxSocketsAlone)
  \/ \E h \in DOMAIN sockets, o \in PlainOptions : connect(h, o, Undef)
  \/ \E id \in usedIds, info \in StateEvents : event(id, info)
  \/ \E h \in DOMAIN sockets, b \in WriteBuffers, c \in Callbacks : write(h, b, c)
  \/ \E i \in 1..Len(acks), e \in AckErrors : ack(i, e)

SpecWrite == Init /\ [][NextWrite]_vars

\* the payloads that have an encoding: a text, a byte buffer
C6_Encodable == {Str("x"), Bytes("x")}

\* C6: a write() call on a Disconnected object throws 'Socket is not connected.'
\* and issues no command; on a Connecting or Connected object, with a payload
\* that has an encoding, it returns true, issues exactly one write command, for
\* the object's id, hands exactly one callback to the native module and leaves
\* the object as it was (nothing is queued in it).
C6_WriteGatedByState ==
  [][ \A h \in DOMAIN sockets, b \in WriteBuffers, c \in Callbacks :
        write(h, b, c) =>
          IF sockets[h].state = DISCONNECTED
          THEN /\ out'.ret = NotConnected
               /\ out'.cmds = <<>>
               /\ acks' = acks
          ELSE b \in C6_Encodable =>
               /\ out'.ret = ReturnedTrue
               /\ out'.cmds = <<Cmd("write", sockets[h].id, Str("eA=="))>>
               /\ Len(acks') = Len(acks) + 1
               /\ sockets' = sockets
    ]_vars

\* C6's case: a write() call has just been accepted on a Connecting object.
C6_Witness ==
  \E h \in DOMAIN sockets :
    /\ sockets[h].state = CONNECTING
    /\ out.ret = ReturnedTrue
    /\ out.cmds = <<Cmd("write", sockets[h].id, Str("eA=="))>>

\* what the callback of a write gets for what the native module reports:
\* nothing for a success, an Error for a message or an Error
C7_Argument(err) == IF err = Undef THEN Undef ELSE Err(err.s)

\* C7: when the native module acknowledges a write() that was given a callback,
\* the callback is called exactly once, with no argument for a success and with
\* an Error for an error, and nothing is thrown; and the callback of a write is
\* called in no other step, in particular not in the write() call.
C7_CallbackOncePerAck ==
  [][ /\ \A i \in 1..Len(acks), e \in AckErrors :
           (ack(i, e) /\ acks[i].cb = Fn) =>
             /\ out'.notes = <<Called("write callback", acks[i].sock, C7_Argument(e))>>
             /\ out'.ret = Returned
             /\ Len(acks') = Len(acks) - 1
      /\ (\E k \in 1..Len(out'.notes) : out'.notes[k].event = "write callback") =>
           \E i \in 1..Len(acks), e \in AckErrors : ack(i, e) /\ acks[i].cb = Fn
    ]_vars

\* C7's case: the callback of a write has just been called with the Error made
\* of the message the native module reported.
C7_Witness ==
  \E h \in DOMAIN sockets :
    out.notes = <<Called("write callback", h, Err("ETIMEDOUT"))>>

----------------------------------------------------------------------------
(* SpecTeardown: destroy(), end() and the timer of setTimeout(), which     *)
(* calls destroy().  end(data) calls write(), which reads this._state; the *)
(* timer is disarmed by the data event and by setTimeout(0) (the callback  *)
(* of a write disarms it in the same way, lines 229-232 and 190-193).      *)

NextTeardown ==
  \/ TcpSocket(MaxSocketsAlone)
  \/ TcpSocketNative(MaxSocketsAlone)
  \/ \E h \in DOMAIN sockets, o \in PlainOptions : connect(h, o, Undef)
  \/ \E id \in usedIds, info \in HandledEvents : event(id, info)
  \/ \E h \in DOMAIN sockets, d \in Durations : setTimeout(h, d, Undef)
  \/ \E h \in DOMAIN sockets : timeout(h)
  \/ \E h \in DOMAIN sockets : destroy(h)
  \/ \E h \in DOMAIN sockets, d \in EndData : end(h, d, Undef)

SpecTeardown == Init /\ [][NextTeardown]_vars

C8_TeardownCommands(cmds, id) ==
  {k \in 1..Len(cmds) : cmds[k].cmd \in {"end", "destroy"} /\ cmds[k].id = id}

\* C8: this._destroyed never goes back to false; over the life of an object
\* this._subscription.remove() is called at most once and at most one end or
\* destroy command is issued for it, by a step that finds it not destroyed and
\* leaves it destroyed; a destroy() or end() call on a destroyed object changes
\* nothing and issues no command.
C8_TeardownIdempotent ==
  [][ \A h \in DOMAIN sockets :
        /\ sockets[h].destroyed => sockets'[h].destroyed
        /\ sockets'[h].removed <= 1
        /\ sockets'[h].closed <= 1
        /\ C8_TeardownCommands(out'.cmds, sockets[h].id) # {} =>
             /\ ~sockets[h].destroyed
             /\ sockets'[h].destroyed
             /\ Cardinality(C8_TeardownCommands(out'.cmds, sockets[h].id)) = 1
        /\ sockets[h].destroyed =>
             /\ destroy(h) => (sockets' = sockets /\ acks' = acks /\ out'.cmds = <<>>)
             /\ \A d \in EndData :
                  end(h, d, Undef) => (sockets' = sockets /\ acks' = acks /\ out'.cmds = <<>>)
    ]_vars

\* C8's case: the timer has just expired on an object that end() had torn down:
\* its destroy() found the object destroyed and issued nothing.
C8_Witness ==
  \E h \in DOMAIN sockets :
    /\ sockets[h].destroyed
    /\ sockets[h].closed = 1
    /\ out.notes = <<Emitted("timeout", h, Undef)>>
    /\ out.cmds = <<>>

\* line 200 alone makes an object Disconnected that was constructed for an
\* incoming connection or that has had its connect event
C9_Closed(s) == s.state = DISCONNECTED /\ (s.nativeSocket \/ s.readable)

\* C9: on an object that a close event has made Disconnected and that is not
\* destroyed, a destroy(), end() or end(data) call throws nothing, leaves it
\* destroyed with its subscription removed, and issues its destroy or end command.
C9_TeardownAfterClose ==
  [][ \A h \in DOMAIN sockets :
        (C9_Closed(sockets[h]) /\ ~sockets[h].destroyed) =>
          /\ destroy(h) =>
               /\ out'.ret = Returned
               /\ sockets'[h].destroyed /\ ~sockets'[h].subscription
               /\ out'.cmds = <<Cmd("destroy", sockets[h].id, Undef)>>
          /\ \A d \in EndData :
               end(h, d, Undef) =>
                 /\ out'.ret = Returned
                 /\ sockets'[h].destroyed /\ ~sockets'[h].subscription
                 /\ C8_TeardownCommands(out'.cmds, sockets[h].id) # {}
    ]_vars

----------------------------------------------------------------------------
(* SpecEvents: the events of several objects.  An event reaches the        *)
(* objects whose subscription (lines 53-55) is on its topic; destroy() and *)
(* end() remove the subscription.                                          *)

NextEvents ==
  \/ TcpSocket(MaxSockets)
  \/ TcpSocketNative(MaxSockets)
  \/ \E id \in usedIds, info \in EventInfos : event(id, info)
  \/ \E h \in DOMAIN sockets : destroy(h)
  \/ \E h \in DOMAIN sockets : end(h, Undef, Undef)

SpecEvents == Init /\ [][NextEvents]_vars

\* a step that gives the event to the live object of this id and to no other
C10_Routed(id, info) ==
  \A h \in DOMAIN sockets :
    IF sockets[h].id = id /\ ~sockets[h].destroyed
    THEN /\ Len(out'.notes) = 1
         /\ out'.notes[1].sock = h
         /\ out'.notes[1].event = info.event
    ELSE /\ sockets'[h] = sockets[h]
         /\ \A k \in 1..Len(out'.notes) : out'.notes[k].sock # h

\* C10: an event of the topic of id X changes, and is emitted on, only the
\* object whose id is X, and only while destroy() or end() has not returned on
\* that object: every other object, and the object itself once it is destroyed,
\* stays as it is and emits nothing; the live object of id X emits the event once.
C10_EventRouting ==
  [][ \A id \in usedIds, info \in EventInfos :
        event(id, info) => C10_Routed(id, info)
    ]_vars

\* C10's case: a connect event has just reached a live object, while another
\* object is live and a third party to it, and while an object is destroyed.
C10_Witness ==
  \E h \in DOMAIN sockets, g \in DOMAIN sockets :
    /\ h # g
    /\ ~sockets[h].destroyed
    /\ sockets[g].destroyed
    /\ sockets[g].state = DISCONNECTED
    /\ sockets[g].readable
    /\ Len(out.notes) = 1
    /\ out.notes[1].sock = h
    /\ out.notes[1].event = "connect"

----------------------------------------------------------------------------
(* The idle timer, under SpecTeardown: setTimeout() arms it, the data      *)
(* event and setTimeout() disarm it, its expiry calls destroy().           *)

\* C11: when the timer that setTimeout(d), d > 0, armed expires (no data event,
\* no write callback and no setTimeout() having disarmed it), the step emits
\* exactly one timeout notification, clears this._timeout and leaves the object
\* destroyed and unsubscribed, and it issues exactly one destroy command, after
\* the notification.
C11_ExpiryTearsDown ==
  [][ \A h \in DOMAIN sockets :
        timeout(h) =>
          /\ out'.notes = <<Emitted("timeout", h, Undef)>>
          /\ ~out'.seen[1].destroyed
          /\ ~sockets'[h].timeout
          /\ sockets'[h].destroyed
          /\ ~sockets'[h].subscription
          /\ out'.cmds = <<Cmd("destroy", sockets[h].id, Undef)>>
    ]_vars

----------------------------------------------------------------------------------------------------------------------------------------
(* SpecTimer: the idle timer of an object that connect() connects, with    *)
(* what arms it (setTimeout) and what disarms it: setTimeout, the data     *)
(* event, the callback of a write, and its expiry.                         *)

\* the events after which write() is accepted and the timer is disarmed
TimerEvents == {info \in EventInfos : info.event \in {"connect", "data"}}

NextTimer ==
  \/ TcpSocket(MaxSocketsAlone)
  \/ \E h \in DOMAIN sockets, o \in PlainOptions : connect(h, o, Undef)
  \/ \E id \in usedIds, info \in TimerEvents : event(id, info)
  \/ \E h \in DOMAIN sockets, d \in Durations : setTimeout(h, d, Undef)
  \/ \E h \in DOMAIN sockets : write(h, Str("x"), Undef)
  \/ \E i \in 1..Len(acks) : ack(i, Undef)
  \/ \E h \in DOMAIN sockets : timeout(h)

SpecTimer == Init /\ [][NextTimer]_vars

\* C12: a data event that reaches an object and the callback of one of its
\* writes both leave its timer disarmed; the timer goes from disarmed to armed
\* only in a setTimeout() call with a positive duration; and a timeout
\* notification is emitted, and the timer's destroy() issues its command, only
\* in the expiry of an armed timer.
C12_ActivityDisarms ==
  [][ \A h \in DOMAIN sockets :
        /\ \A id \in usedIds, info \in TimerEvents :
             (event(id, info) /\ info.event = "data" /\ h \in subscribers(id)) =>
               ~sockets'[h].timeout
        /\ \A i \in 1..Len(acks) :
             (ack(i, Undef) /\ acks[i].sock = h) => ~sockets'[h].timeout
        /\ (~sockets[h].timeout /\ sockets'[h].timeout) => setTimeout(h, Num(100), Undef)
        /\ (\/ \E k \in 1..Len(out'.notes) :
                  out'.notes[k].sock = h /\ out'.notes[k].event = "timeout"
            \/ \E k \in 1..Len(out'.cmds) :
                  out'.cmds[k].id = sockets[h].id /\ out'.cmds[k].cmd = "destroy") =>
             (sockets[h].timeout /\ timeout(h))
    ]_vars

\* C12's case: a data event has just reached a connected object that is
\* waiting for the callback of a write; its timer is disarmed and it is not
\* destroyed.
C12_Witness ==
  \E h \in DOMAIN sockets :
    /\ ~sockets[h].timeout
    /\ ~sockets[h].destroyed
    /\ \E i \in 1..Len(acks) : acks[i].sock = h
    /\ out.notes = <<Emitted("data", h, Bytes("x"))>>

----------------------------------------------------------------------------
(* The events of one object, under SpecConnect.                            *)

\* what emit() passes to the listeners of the event (lines 196-198, 203)
C13_Payload(info) ==
  IF info.event = "data" THEN Bytes("x") ELSE info.data

\* C13: every event that reaches an object is emitted once, in the step that
\* receives it (so in the order of the events), and the listeners find the
\* object already changed: Connected with the address, port and family of the
\* event at a connect event, Disconnected at a close event; a data event is
\* emitted with the decoded bytes.  An object that has had no connect event has
\* no address, port or family.
C13_StateBeforeNotification ==
  [][ /\ \A id \in usedIds, info \in EventInfos :
           event(id, info) =>
             \A h \in subscribers(id) :
               /\ out'.notes = <<Emitted(info.event, h, C13_Payload(info))>>
               /\ Len(out'.seen) = 1
               /\ info.event = "connect" =>
                    /\ out'.seen[1].state = CONNECTED
                    /\ out'.seen[1].address = Str("10.0.0.2")
                    /\ out'.seen[1].port = Num(4000)
                    /\ out'.seen[1].family # Undef
               /\ info.event = "close" => out'.seen[1].state = DISCONNECTED
               /\ info.event \in {"data", "error"} => out'.seen[1] = sockets[h]
      /\ \A h \in DOMAIN sockets' :
           ~sockets'[h].readable =>
             /\ sockets'[h].address = Undef
             /\ sockets'[h].port = Undef
             /\ sockets'[h].family = Undef
    ]_vars

\* C13's case: the close event has just been emitted on an object that
\* connect() had made Connecting and that has had its connect event: the
\* listeners found it Disconnected, with the address of the connect event.
C13_Witness ==
  \E h \in DOMAIN sockets :
    /\ ~sockets[h].nativeSocket
    /\ out.notes = <<Emitted("close", h, Undef)>>
    /\ Len(out.seen) = 1
    /\ out.seen[1].state = DISCONNECTED
    /\ out.seen[1].address = Str("10.0.0.2")

----------------------------------------------------------------------------
(* The close event and the fields of an object, under SpecTeardown.        *)

\* C14: a close event that reaches an object leaves it Disconnected, whatever
\* its state was, and is emitted on it; it changes neither this._destroyed nor
\* the subscription nor usedIds nor the timer, and issues no command.  The
\* object is still subscribed afterwards: a connect event that reaches a
\* Disconnected object makes it Connected.
C14_CloseOnlyDisconnects ==
  [][ \A id \in usedIds, info \in HandledEvents :
        event(id, info) =>
          \A h \in subscribers(id) :
            /\ info.event = "close" =>
                 /\ sockets'[h].state = DISCONNECTED
                 /\ out'.notes = <<Emitted("close", h, Undef)>>
                 /\ out'.cmds = <<>>
                 /\ usedIds' = usedIds
                 /\ sockets'[h].destroyed = sockets[h].destroyed
                 /\ sockets'[h].subscription
                 /\ sockets'[h].removed = sockets[h].removed
                 /\ sockets'[h].timeout = sockets[h].timeout
                 /\ sockets'[h] = [sockets[h] EXCEPT !.state = DISCONNECTED]
            /\ (info.event = "connect" /\ sockets[h].state = DISCONNECTED) =>
                 /\ sockets'[h].state = CONNECTED
                 /\ out'.notes = <<Emitted("connect", h, info.data)>>
    ]_vars

\* C14's case: a close event has just reached an object whose timer is armed:
\* the object is Disconnected, still subscribed, not destroyed, and its timer is
\* still armed.
C14_Witness ==
  \E h \in DOMAIN sockets :
    /\ out.notes = <<Emitted("close", h, Undef)>>
    /\ sockets[h].state = DISCONNECTED
    /\ sockets[h].timeout
    /\ sockets[h].subscription
    /\ ~sockets[h].destroyed

\* C15: this.readable and this.writable are equal; they are false on an object
\* that has had no connect event (its address is still undefined), and they
\* are not true on a destroyed object.
C15_ReadableWritable ==
  \A h \in DOMAIN sockets :
    /\ sockets[h].readable = sockets[h].writable
    /\ sockets[h].address = Undef => ~sockets[h].readable
    /\ sockets[h].destroyed => (~sockets[h].readable /\ ~sockets[h].writable)

\* C16: on an object that is not destroyed, end(data) with a non-empty text,
\* when the object is Connecting or Connected, issues one write command with
\* the encoded text and then one end command, and end() without data issues the
\* end command alone; both return, leave the object destroyed with its
\* subscription removed once, and issue no destroy command.
C16_EndWritesThenEnds ==
  [][ \A h \in DOMAIN sockets, d \in EndData :
        (end(h, d, Undef) /\ ~sockets[h].destroyed
           /\ (Truthy(d) => sockets[h].state \in {CONNECTING, CONNECTED})) =>
          /\ out'.ret = Returned
          /\ out'.cmds = (IF Truthy(d)
                          THEN <<Cmd("write", sockets[h].id, Str("eA=="))>>
                          ELSE <<>>) \o <<Cmd("end", sockets[h].id, Undef)>>
          /\ sockets'[h].destroyed
          /\ ~sockets'[h].subscription
          /\ sockets'[h].removed = sockets[h].removed + 1
    ]_vars

\* C16's case: end("x") has just returned on a Connecting object: the write
\* command and then the end command were issued, the object is destroyed.
C16_Witness ==
  \E h \in DOMAIN sockets :
    /\ sockets[h].state = CONNECTING
    /\ sockets[h].destroyed
    /\ out.cmds = <<Cmd("write", sockets[h].id, Str("eA==")), Cmd("end", sockets[h].id, Undef)>>

\* C17: no step emits a timeout notification on an object that destroy() or
\* end() has left destroyed.
C17_NoTimeoutAfterTeardown ==
  [][ \A h \in DOMAIN sockets :
        sockets[h].destroyed =>
          \A k \in 1..Len(out'.notes) :
            ~(out'.notes[k].sock = h /\ out'.notes[k].event = "timeout")
    ]_vars

\* C18: no step issues a connect or write command for the id of an object
\* for which the end or destroy command has been issued.
C18_NoCommandAfterTeardown ==
  [][ \A h \in DOMAIN sockets :
        sockets[h].closed > 0 =>
          \A k \in 1..Len(out'.cmds) :
            ~(out'.cmds[k].id = sockets[h].id /\ out'.cmds[k].cmd \in {"connect", "write"})
    ]_vars

----------------------------------------------------------------------------
(* SpecTimeoutCallback: setTimeout() with a callback, which line 135       *)
(* registers as a once listener of 'timeout', with what disarms the timer  *)
(* (the data event, setTimeout) and its expiry.                            *)

NextTimeoutCallback ==
  \/ TcpSocket(MaxSocketsAlone)
  \/ TcpSocketNative(MaxSocketsAlone)
  \/ \E h \in DOMAIN sockets, o \in PlainOptions : connect(h, o, Undef)
  \/ \E id \in usedIds, info \in TimerEvents : event(id, info)
  \/ \E h \in DOMAIN sockets, d \in Durations, c \in Callbacks :
       /\ Len(sockets[h].timeoutListeners) + (IF c = Fn THEN 1 ELSE 0) <= MaxListeners
       /\ setTimeout(h, d, c)
  \/ \E h \in DOMAIN sockets : timeout(h)

SpecTimeoutCallback == Init /\ [][NextTimeoutCallback]_vars

\* C19: a callback given to setTimeout() is called only in the expiry of the
\* timer that its own call armed, and a step calls it at most once.
C19_CallbackOfItsOwnTimer ==
  [][ \A h \in DOMAIN sockets :
        LET calls == {k \in 1..Len(out'.notes) :
                        out'.notes[k].sock = h /\ out'.notes[k].event = "timeout callback"}
        IN /\ calls # {} => timeout(h)
           /\ Cardinality(calls) <= 1
           /\ \A k \in calls : out'.notes[k].data = Str("of the arming call")
    ]_vars

----------------------------------------------------------------------------
(* SpecConnectCallback: connect() with a callback, which line 84 registers *)
(* as a once listener of 'connect', and the events that change this._state.*)

\* options that pass the validation of lines 92-107, and options that do not
CallbackOptions ==
  {o \in ConnectOptions : o.localAddress = Undef /\ o.port \in {Num(80), Num(65536), Str("abc")}}

NextConnectCallback ==
  \/ TcpSocket(MaxSocketsAlone)
  \/ TcpSocketNative(MaxSocketsAlone)
  \/ \E h \in DOMAIN sockets, o \in CallbackOptions, c \in Callbacks :
       /\ Len(sockets[h].connectListeners) + (IF c = Fn THEN 1 ELSE 0) <= MaxListeners
       /\ connect(h, o, c)
  \/ \E id \in usedIds, info \in StateEvents : event(id, info)

SpecConnectCallback == Init /\ [][NextConnectCallback]_vars

\* C20: a connect() call that throws a validation error leaves the connect
\* listeners of the object as they were, and a connect event calls no callback
\* of a call that was rejected; a step calls a connect callback at most once.
C20_FailedConnectLeavesNoTrace ==
  [][ \A h \in DOMAIN sockets :
        /\ \A o \in CallbackOptions, c \in Callbacks :
             (connect(h, o, c) /\ ~bound(sockets[h]) /\ validate(o) # "") =>
               sockets'[h].connectListeners = sockets[h].connectListeners
        /\ \A k \in 1..Len(out'.notes) :
             (out'.notes[k].sock = h /\ out'.notes[k].event = "connect callback") =>
               /\ out'.notes[k].data = Str("of an accepted call")
               /\ \A j \in 1..Len(out'.notes) :
                    (out'.notes[j].sock = h /\ out'.notes[j].event = "connect callback") => j = k
    ]_vars

====
